---- MODULE Spec2Model ----
(***************************************************************************)
(* Model of auto-deny-rules.go: the main() orchestrator, the goroutines    *)
(* it launches per (environment, service, application) triple, the two     *)
(* phase traffic query of submitTrafficQuery / runSingleAsyncQuery, and    *)
(* the creation of deny rules from the collected findings.                 *)
(*                                                                         *)
(* The backing system (PCE) is the environment: every HTTP exchange is a   *)
(* nondeterministic choice among the responses apiRequestWithRetry can     *)
(* hand back to its caller.                                                *)
(***************************************************************************)
EXTENDS Integers, Sequences, FiniteSets, TLC

(* ------------------------------ bounds -------------------------------- *)

\* Largest number of polls of one job before its deadline (the number of
\* ticker periods that fit: 5 minutes / 5 seconds in the source, scaled
\* down).
MaxPolls == 2

\* Largest number of traffic verifications a modelled catalog asks for.
MaxQueries == 3

(* ------------------------- program constants -------------------------- *)

\* sem := make(chan struct{}, 2)
K == 2

(* ------------------------- the backing system ------------------------- *)

EnvLabels == <<"e1", "e2">>
AppLabels == <<"a1", "a2", "a3">>
SvcLabels == <<"s1", "s2">>

Range(s) == {s[i] : i \in 1..Len(s)}
Prefixes(s) == {SubSeq(s, 1, n) : n \in 0..Len(s)}

EnvSet == Range(EnvLabels)
AppSet == Range(AppLabels)
SvcSet == Range(SvcLabels)

Groups == EnvSet \X SvcSet
Triples == EnvSet \X SvcSet \X AppSet

NoGroup == <<"none", "none">>

RECURSIVE SumLen(_, _)
SumLen(f, S) ==
    IF S = {} THEN 0
    ELSE LET e == CHOOSE x \in S : TRUE
         IN  Len(f[e]) + SumLen(f, S \ {e})

Worlds ==
    {w \in [apps : [EnvSet -> Prefixes(AppLabels)], svcs : Prefixes(SvcLabels)] :
        SumLen(w.apps, EnvSet) * Len(w.svcs) <= MaxQueries}

(* --------------------------- response sets ---------------------------- *)

\* What apiRequestWithRetry + json.Unmarshal + resp["href"] can yield for
\* the POST that submits a query.
SubmitResponses == {"href", "nohref", "error"}

\* What the GET on the job href can yield: a terminal transport error, or a
\* document with a status and a flows_count.
PollStatuses == {"pending", "failed", "completed"}
PollResponses ==
    {[err |-> TRUE, status |-> "", flows_count |-> 0]} \cup
    {[err |-> FALSE, status |-> s, flows_count |-> c] :
        s \in PollStatuses, c \in {0, 1}}

VARIABLES
    backend,        \* catalog held by the backing system
    pc,             \* position of main()
    envs,           \* result of getEnvs
    services,       \* result of getRansomServices
    rulesetHref,    \* result of createRuleset
    li,             \* index of the env loop that fills envInfos
    envInfos,       \* non-empty environments with their apps
    totalQueries,
    ipListHref,
    lists,          \* getIPListHref: the decoded answer, during the call
    ei, si, ai,     \* indices of the env / service / app loops
    sem,            \* number of tokens in the sem channel
    wg,             \* WaitGroup counter
    appsNoTraffic,  \* per loop iteration (group): accumulated labels
    appsMu,         \* per loop iteration (group): holder of the mutex
    denyRules,
    doneQueries,
    task,           \* goroutine per launched triple
    outcome,        \* per queried triple: what submitTrafficQuery returned
    totalDenyRules,
    doneDenyRules,
    di,             \* index of the rule creation loop
    ruleReqs,       \* deny rule payloads POSTed so far
    ruleResults,    \* per POSTed payload: createDenyRule returned nil
    emptyReported,  \* the log line about the empty rule set was printed
    http,           \* one call of apiRequestWithRetry, run on its own
    wl,             \* one call of getWorkloadsForEnv, run on its own
    qry,            \* one call of runSingleAsyncQuery, run on its own
    us              \* the userscript working on one (service, environment)

vars == <<backend, pc, envs, services, rulesetHref, li, envInfos,
          totalQueries, ipListHref, lists, ei, si, ai, sem, wg,
          appsNoTraffic,
          appsMu, denyRules, doneQueries, task, outcome, totalDenyRules,
          doneDenyRules, di, ruleReqs, ruleResults, emptyReported, http,
          wl, qry, us>>

catalogVars == <<backend, envs, services, rulesetHref, li, envInfos,
                 totalQueries, ipListHref, lists>>
loopVars == <<ei, si, ai>>

\* The calls that are run on their own, outside main().
auxVars == <<http, wl, qry, us>>
synthVars == <<totalDenyRules, doneDenyRules, di, ruleReqs, ruleResults,
               emptyReported>>

\* The variables of main() and of its goroutines.
mainVars == <<catalogVars, pc, loopVars, sem, wg, appsNoTraffic, appsMu,
              denyRules, doneQueries, task, outcome, synthVars>>

(* ------------------------------ helpers ------------------------------- *)

IdleTask ==
    [pc |-> "idle", env |-> "none", svc |-> "none", phase |-> 0, polls |-> 0,
     r24 |-> "none", r89 |-> "none", ok |-> FALSE, err |-> "nil"]

LaunchGroup(t) == <<t[1], t[2]>>

\* appsMu is held by nobody.
Unlocked == <<"none", "none", "none">>

\* Positions of a goroutine after submitTrafficQuery has returned.
ReturnedPcs == {"lock", "append", "count", "release", "wgdone", "done"}

\* What a call returned, as the goroutine tells the cases apart (lines
\* 459-466): an error, no traffic, or traffic.
OutcomeOf(ok, err) ==
    IF err # "nil" THEN "error" ELSE IF ok THEN "noTraffic" ELSE "hasTraffic"

\* The loop variables ei and service as main() currently holds them.
CurGroup ==
    IF pc \in {"launch", "wait"} /\ ei <= Len(envInfos) /\ si <= Len(services)
    THEN <<envInfos[ei].env, services[si]>>
    ELSE NoGroup

\* Variant: the total counts the environments, not their applications.
SumQueriesPerEnv(infos, nsvc) == nsvc * Len(infos)

\* Lines 420-423: totalQueries += len(services) * len(ei.apps), over
\* envInfos.
RECURSIVE SumQueries(_, _)
SumQueries(infos, nsvc) ==
    IF infos = <<>> THEN 0
    ELSE nsvc * Len(Head(infos).apps) + SumQueries(Tail(infos), nsvc)

\* Variant: an increment that is lost (the counter is written back as read).
AddInt64Lost(v, delta) == v

\* atomic.AddInt64(&v, delta), lines 469 and 508: read, add and write back
\* in one indivisible step.
AddInt64(v, delta) == v + delta

\* Variant: the channel holds one token more than K.
SemHasRoomOffByOne(s) == s <= K

\* sem <- struct{}{} proceeds only while the channel has room.
SemHasRoom(s) == s < K

\* Variant: the join does not wait for the goroutines.
WaitReturnsAtOnce(w) == TRUE

\* wg.Wait() returns only when the counter is zero.
WaitReturns(w) == w = 0

\* Variant: a job reported as failed also ends the polling.
PollCompletedOrFailed(status) == status \in {"completed", "failed"}

\* Variant: a single flow is not counted as traffic.
HasFlowsAboveOne(flows_count) == flows_count > 1

\* runSingleAsyncQuery, lines 275-280: the poll ends the query only when the
\* status is "completed"; the outcome is flowsCount > 0.
PollCompleted(status) == status = "completed"
HasFlows(flows_count) == flows_count > 0

\* Variant: the 89-day query is never made.
PhaseReturnsAfterShort(phase, hasFlows) == TRUE

\* Variant: both windows are always queried.
PhaseReturnsAfterLong(phase, hasFlows) == phase = 89

\* submitTrafficQuery, lines 225-240: after a phase that returned
\* (hasFlows, nil), either return or go on with the 89-day query.
PhaseReturns(phase, hasFlows) == hasFlows \/ phase = 89

\* Variant: a failed call counts as no traffic.
ShouldAppendOnError(ok, err) == ok \/ err # "nil"

\* Variant: every call that did not fail counts as no traffic.
ShouldAppendIgnoringOk(ok, err) == err = "nil"

\* goroutine, lines 459-466: the label is appended only for (true, nil).
ShouldAppend(ok, err) == err = "nil" /\ ok

\* What the backing system answered to a poll, as recorded for the claims:
\* the raw answer, not the way the code reads it.
Seen(resp) ==
    IF resp.err THEN "error"
    ELSE IF resp.status = "completed"
         THEN (IF resp.flows_count = 0 THEN "zero" ELSE "flows")
         ELSE resp.status

SetPhaseSeen(rec, v) ==
    IF rec.phase = 24 THEN [rec EXCEPT !.r24 = v] ELSE [rec EXCEPT !.r89 = v]

\* Variant: a call that found traffic ends the goroutine without running
\* the deferred calls.
AfterCallLeakOnTraffic(ok, err) ==
    IF err = "nil" /\ ~ok THEN "done" ELSE IF ok THEN "lock" ELSE "count"

\* Variant: a failed call ends the goroutine without releasing anything.
AfterCallAbortOnError(ok, err) ==
    IF err # "nil" THEN "done" ELSE IF ok THEN "lock" ELSE "count"

\* goroutine, lines 459-469: where the goroutine goes once the call has
\* returned (ok, err).
AfterCall(ok, err) == IF ShouldAppend(ok, err) THEN "lock" ELSE "count"

\* submitTrafficQuery returns (ok, err): the locals of the call are gone.
Returned(rec, ok, err) ==
    [rec EXCEPT !.ok = ok, !.err = err, !.polls = 0, !.pc = AfterCall(ok, err)]

(* ------------------------------- Init --------------------------------- *)

\* No call of apiRequestWithRetry is run on its own.
IdleHttp ==
    [pc |-> "idle", buildable |-> TRUE, answers |-> <<>>, i |-> 0,
     sent |-> 0, result |-> "none", data |-> 0]

\* No call of getWorkloadsForEnv is run on its own.
IdleWl ==
    [pc |-> "idle", workloads |-> <<>>, w |-> 1, uniqueApps |-> {},
     apps |-> <<>>]

\* A field of a decoded JSON object: absent, a string or a number.
Absent == [kind |-> "absent", s |-> "", n |-> 0]
Str(v) == [kind |-> "string", s |-> v, n |-> 0]
Num(v) == [kind |-> "number", s |-> "", n |-> v]

\* No call of runSingleAsyncQuery is run on its own.
IdleQry ==
    [pc |-> "idle", href |-> "", log |-> <<>>, ok |-> FALSE, err |-> "none"]

\* A call of the userscript's submitTrafficQuery that has not started.
IdleCall ==
    [pc |-> "idle", phase |-> 0, polls |-> 0, r24 |-> "none", r89 |-> "none",
     noFlow |-> FALSE]

\* The userscript is not run.
IdleUs ==
    [pc |-> "idle", apps |-> <<>>, i |-> 1, zeroFlowApps |-> <<>>,
     call |-> [a \in AppSet |-> IdleCall], providers |-> <<>>]

\* main() at its first statement.
InitMain ==
    /\ pc = "getEnvs"
    /\ envs = <<>>
    /\ services = <<>>
    /\ rulesetHref = ""
    /\ li = 1
    /\ envInfos = <<>>
    /\ totalQueries = 0
    /\ ipListHref = ""
    /\ lists = <<>>
    /\ ei = 1 /\ si = 1 /\ ai = 1
    /\ sem = 0
    /\ wg = 0
    /\ appsNoTraffic = [g \in Groups |-> <<>>]
    /\ appsMu = [g \in Groups |-> Unlocked]
    /\ denyRules = <<>>
    /\ doneQueries = 0
    /\ task = [t \in Triples |-> IdleTask]
    /\ outcome = [t \in Triples |-> "none"]
    /\ totalDenyRules = 0
    /\ doneDenyRules = 0
    /\ di = 1
    /\ ruleReqs = <<>>
    /\ ruleResults = <<>>
    /\ emptyReported = FALSE

Init ==
    /\ backend \in Worlds
    /\ InitMain
    /\ http = IdleHttp
    /\ wl = IdleWl
    /\ qry = IdleQry
    /\ us = IdleUs

(* ------------------------ main(): catalog phase ----------------------- *)

GetEnvs ==
    /\ pc = "getEnvs"
    /\ \E ok \in BOOLEAN :
         IF ok THEN /\ envs' = EnvLabels
                    /\ pc' = "getRansomServices"
               ELSE /\ envs' = envs
                    /\ pc' = "fatal"
    /\ UNCHANGED <<auxVars, backend, services, rulesetHref, li, envInfos, totalQueries,
                   ipListHref, lists, loopVars, sem, wg, appsNoTraffic, appsMu,
                   denyRules, doneQueries, task, outcome, synthVars>>

GetRansomServices ==
    /\ pc = "getRansomServices"
    /\ \E ok \in BOOLEAN :
         IF ok THEN /\ services' = backend.svcs
                    /\ pc' = "createRuleset"
               ELSE /\ services' = services
                    /\ pc' = "fatal"
    /\ UNCHANGED <<auxVars, backend, envs, rulesetHref, li, envInfos, totalQueries,
                   ipListHref, lists, loopVars, sem, wg, appsNoTraffic, appsMu,
                   denyRules, doneQueries, task, outcome, synthVars>>

CreateRuleset ==
    /\ pc = "createRuleset"
    /\ \E ok \in BOOLEAN :
         IF ok THEN /\ rulesetHref' = "rs1"
                    /\ pc' = IF Len(envs) = 0 THEN "countQueries"
                                              ELSE "getWorkloadsForEnv"
               ELSE /\ rulesetHref' = rulesetHref
                    /\ pc' = "fatal"
    /\ li' = 1
    /\ UNCHANGED <<auxVars, backend, envs, services, envInfos, totalQueries,
                   ipListHref, lists, loopVars, sem, wg, appsNoTraffic, appsMu,
                   denyRules, doneQueries, task, outcome, synthVars>>

\* getWorkloadsForEnv, lines 157-169: the app labels are collected in a map
\* keyed by href and read back by ranging over the map, in whatever order
\* the runtime picks.
MapOrders(labels) ==
    {p \in [1..Len(labels) -> Range(labels)] : Range(p) = Range(labels)}

\* Variant: an environment without applications is kept.
KeepsEnvEvenEmpty(ok, apps) == ok

\* Lines 410-416: the environment is kept only when its applications were
\* loaded and there is at least one.
KeepsEnv(ok, apps) == ok /\ Len(apps) # 0

\* One iteration of the loop over envs (lines 408-418): a failed load and
\* an empty app list both skip the environment.
GetWorkloadsForEnv ==
    /\ pc = "getWorkloadsForEnv"
    /\ li <= Len(envs)
    /\ \E ok \in BOOLEAN :
       \E apps \in MapOrders(backend.apps[envs[li]]) :
         envInfos' = IF KeepsEnv(ok, apps)
                     THEN Append(envInfos, [env |-> envs[li], apps |-> apps])
                     ELSE envInfos
    /\ li' = li + 1
    /\ pc' = IF li = Len(envs) THEN "countQueries" ELSE "getWorkloadsForEnv"
    /\ UNCHANGED <<auxVars, backend, envs, services, rulesetHref, totalQueries,
                   ipListHref, lists, loopVars, sem, wg, appsNoTraffic, appsMu,
                   denyRules, doneQueries, task, outcome, synthVars>>

CountQueries ==
    /\ pc = "countQueries"
    /\ totalQueries' = SumQueries(envInfos, Len(services))
    /\ pc' = IF totalQueries' = 0 THEN "noQueries" ELSE "getIPListHref"
    /\ UNCHANGED <<auxVars, backend, envs, services, rulesetHref, li, envInfos,
                   ipListHref, lists, loopVars, sem, wg, appsNoTraffic, appsMu,
                   denyRules, doneQueries, task, outcome, synthVars>>

\* The IP lists of the backing system the name filter of the GET can match,
\* in the order the backing system lists them.
IpLists == <<"ip1", "ip2">>

\* getIPListHref, lines 340-353: the GET and the decoding of its answer.
\* The answer holds no, one or several IP lists.
GetIPListHref ==
    /\ pc = "getIPListHref"
    /\ \E ok \in BOOLEAN :
       \E matches \in Prefixes(IpLists) :
         IF ok THEN /\ lists' = matches
                    /\ pc' = "resolveIPList"
               ELSE /\ lists' = lists
                    /\ pc' = "fatal"
    /\ UNCHANGED <<auxVars, backend, envs, services, rulesetHref, li, envInfos,
                   totalQueries, ipListHref, loopVars, sem, wg,
                   appsNoTraffic, appsMu, denyRules, doneQueries, task,
                   outcome, synthVars>>

\* getIPListHref, lines 354-357: the error is returned only for an empty
\* answer.
LookupFails(matches) == Len(matches) = 0

\* getIPListHref, lines 355 and 357: the href returned.
LookupHref(matches) == IF LookupFails(matches) THEN "" ELSE matches[1]

\* Variant: main() goes on after a failed lookup.
AfterLookupIgnoringError(failed) == "launch"

\* main(), lines 437-439: log.Fatalf when getIPListHref returned an error.
AfterLookup(failed) == IF failed THEN "fatal" ELSE "launch"

\* getIPListHref, lines 354-357, returns to main(), lines 436-443.
ResolveIPList ==
    /\ pc = "resolveIPList"
    /\ ipListHref' = LookupHref(lists)
    /\ pc' = AfterLookup(LookupFails(lists))
    /\ lists' = <<>>
    /\ ei' = 1 /\ si' = 1 /\ ai' = 1
    /\ UNCHANGED <<auxVars, backend, envs, services, rulesetHref, li, envInfos,
                   totalQueries, sem, wg, appsNoTraffic, appsMu, denyRules,
                   doneQueries, task, outcome, synthVars>>

(* ------------------------ main(): fan-out / join ---------------------- *)

\* Variant: the loop steps over every other application.
NextAppSkipping(i) == i + 2

\* Line 447: for _, app := range ei.apps, the next index.
NextApp(i) == i + 1

\* Lines 448-451: wg.Add(1); sem <- struct{}{}; go func(a){...}(app)
\* The three statements are one step: only main() adds to wg and waits on
\* it, and it does not wait before the loop over the apps is over.
Launch ==
    /\ pc = "launch"
    /\ ai <= Len(envInfos[ei].apps)
    /\ SemHasRoom(sem)
    /\ LET t == <<envInfos[ei].env, services[si], envInfos[ei].apps[ai]>>
       IN  task' = [task EXCEPT ![t] = [IdleTask EXCEPT !.pc = "start"]]
    /\ wg' = wg + 1
    /\ sem' = sem + 1
    /\ ai' = NextApp(ai)
    /\ pc' = IF ai = Len(envInfos[ei].apps) THEN "wait" ELSE "launch"
    /\ UNCHANGED <<auxVars, catalogVars, ei, si, appsNoTraffic, appsMu, denyRules,
                   doneQueries, outcome, synthVars>>

\* Variant: an entry is collected for every group.
RecordsFindingAlways(acc) == TRUE

\* Line 478: if len(appsNoTraffic) > 0
RecordsFinding(acc) == Len(acc) > 0

\* Lines 476-487 and the loop headers: wg.Wait(), record the finding of the
\* group if it is not empty, move to the next service / environment, or
\* leave the loops (line 491).
Join ==
    /\ pc = "wait"
    /\ WaitReturns(wg)
    /\ LET g   == <<envInfos[ei].env, services[si]>>
           acc == appsNoTraffic[g]
       IN  denyRules' =
             IF RecordsFinding(acc)
             THEN Append(denyRules,
                         [env |-> g[1], service |-> g[2], apps |-> acc])
             ELSE denyRules
    /\ IF si < Len(services)
       THEN /\ si' = si + 1 /\ ei' = ei /\ ai' = 1
            /\ pc' = "launch"
            /\ UNCHANGED <<totalDenyRules, di>>
       ELSE IF ei < Len(envInfos)
       THEN /\ si' = 1 /\ ei' = ei + 1 /\ ai' = 1
            /\ pc' = "launch"
            /\ UNCHANGED <<totalDenyRules, di>>
       ELSE /\ UNCHANGED <<ei, si, ai>>
            /\ totalDenyRules' = Len(denyRules')
            /\ di' = 1
            /\ pc' = "createDenyRules"
    /\ UNCHANGED <<auxVars, catalogVars, sem, wg, appsNoTraffic, appsMu, doneQueries,
                   task, outcome, doneDenyRules, ruleReqs, ruleResults,
                   emptyReported>>

(* ----------------------------- goroutine ------------------------------ *)

\* Line 455: the arguments of submitTrafficQuery are evaluated.  The
\* closure reads the loop variables ei and service: the ones of the
\* launching iteration (per-iteration loop variables) or the ones main()
\* holds now (shared loop variables), depending on the language version.
StartTask(t) ==
    /\ task[t].pc = "start"
    /\ \E g \in {LaunchGroup(t)} \cup ({CurGroup} \ {NoGroup}) :
         task' = [task EXCEPT ![t].env = g[1], ![t].svc = g[2],
                              ![t].phase = 24, ![t].pc = "submit"]
    /\ UNCHANGED <<auxVars, catalogVars, pc, loopVars, sem, wg, appsNoTraffic, appsMu,
                   denyRules, doneQueries, outcome, synthVars>>

\* The step of submitTrafficQuery that takes goroutine t to the record new;
\* when the call has returned, what it returned is kept for the triple it
\* was made for.
CallStep(t, new) ==
    /\ task' = [task EXCEPT ![t] = new]
    /\ outcome' = IF new.pc \in ReturnedPcs
                  THEN [outcome EXCEPT ![<<new.env, new.svc, t[3]>>] =
                                          OutcomeOf(new.ok, new.err)]
                  ELSE outcome

\* runSingleAsyncQuery, lines 244-255: POST of the query.
SubmitQuery(t) ==
    /\ task[t].pc = "submit"
    /\ \E r \in SubmitResponses :
         CallStep(t, IF r = "href"
                     THEN [SetPhaseSeen(task[t], "submitted") EXCEPT
                              !.polls = 0, !.pc = "poll"]
                     ELSE Returned(SetPhaseSeen(task[t], r), FALSE, r))
    /\ UNCHANGED <<auxVars, catalogVars, pc, loopVars, sem, wg, appsNoTraffic, appsMu,
                   denyRules, doneQueries, synthVars>>

\* runSingleAsyncQuery, lines 265-280: one tick of the ticker.
PollQuery(t) ==
    /\ task[t].pc = "poll"
    /\ task[t].polls < MaxPolls
    /\ \E resp \in PollResponses :
         LET rec == [SetPhaseSeen(task[t], Seen(resp)) EXCEPT
                        !.polls = @ + 1]
         IN  CallStep(t,
               IF resp.err
               THEN Returned(rec, FALSE, "error")
               ELSE IF ~PollCompleted(resp.status)
               THEN rec
               ELSE IF PhaseReturns(rec.phase, HasFlows(resp.flows_count))
               THEN Returned(rec, ~HasFlows(resp.flows_count), "nil")
               ELSE [rec EXCEPT !.phase = 89, !.polls = 0, !.pc = "submit"])
    /\ UNCHANGED <<auxVars, catalogVars, pc, loopVars, sem, wg, appsNoTraffic, appsMu,
                   denyRules, doneQueries, synthVars>>

\* runSingleAsyncQuery, lines 263-264: the deadline fires.  Time is not
\* modelled: a poll may take long (three attempts of up to 30 seconds each
\* and the backoff between them), so the deadline may come after any
\* number of polls.
PollTimeout(t) ==
    /\ task[t].pc = "poll"
    /\ CallStep(t, Returned(task[t], FALSE, "timeout"))
    /\ UNCHANGED <<auxVars, catalogVars, pc, loopVars, sem, wg, appsNoTraffic, appsMu,
                   denyRules, doneQueries, synthVars>>

\* Variant: the lock is taken whoever holds it.
CanLockAlways(holder) == TRUE

\* Line 463: appsMu.Lock() proceeds only when nobody holds the mutex.
CanLock(holder) == holder = Unlocked

\* Line 463: appsMu.Lock()
LockApps(t) ==
    /\ task[t].pc = "lock"
    /\ CanLock(appsMu[LaunchGroup(t)])
    /\ appsMu' = [appsMu EXCEPT ![LaunchGroup(t)] = t]
    /\ task' = [task EXCEPT ![t].pc = "append"]
    /\ UNCHANGED <<auxVars, catalogVars, pc, loopVars, sem, wg, appsNoTraffic,
                   denyRules, doneQueries, outcome, synthVars>>

\* Variant: the append writes back a slice that misses the labels appended
\* by the other goroutines (an append outside the mutex).
AppendLabelOverwriting(acc, a) == <<a>>

\* Line 464: appsNoTraffic = append(appsNoTraffic, a), under appsMu.
AppendLabel(acc, a) == Append(acc, a)

\* Lines 464-465: append and unlock.
AppendApp(t) ==
    /\ task[t].pc = "append"
    /\ appsNoTraffic' = [appsNoTraffic EXCEPT
                           ![LaunchGroup(t)] = AppendLabel(@, t[3])]
    /\ appsMu' = [appsMu EXCEPT ![LaunchGroup(t)] = Unlocked]
    /\ task' = [task EXCEPT ![t].pc = "count"]
    /\ UNCHANGED <<auxVars, catalogVars, pc, loopVars, sem, wg, denyRules,
                   doneQueries, outcome, synthVars>>

\* Lines 469-471: atomic.AddInt64(&doneQueries, 1) and the progress line.
\* Nothing of what the call returned is used after this point: only the
\* deferred calls are left to run.
CountDone(t) ==
    /\ task[t].pc = "count"
    /\ doneQueries' = AddInt64(doneQueries, 1)
    /\ task' = [task EXCEPT ![t] = [IdleTask EXCEPT !.pc = "release"]]
    /\ UNCHANGED <<auxVars, catalogVars, pc, loopVars, sem, wg, appsNoTraffic, appsMu,
                   denyRules, outcome, synthVars>>

\* Line 453 (deferred, runs first): <-sem
ReleaseSem(t) ==
    /\ task[t].pc = "release"
    /\ sem > 0
    /\ sem' = sem - 1
    /\ task' = [task EXCEPT ![t].pc = "wgdone"]
    /\ UNCHANGED <<auxVars, catalogVars, pc, loopVars, wg, appsNoTraffic, appsMu,
                   denyRules, doneQueries, outcome, synthVars>>

\* Line 452 (deferred, runs last): wg.Done(); the goroutine ends.
WgDone(t) ==
    /\ task[t].pc = "wgdone"
    /\ wg' = wg - 1
    /\ task' = [task EXCEPT ![t].pc = "done"]
    /\ UNCHANGED <<auxVars, catalogVars, pc, loopVars, sem, appsNoTraffic, appsMu,
                   denyRules, doneQueries, outcome, synthVars>>

(* ------------------------ main(): rule creation ----------------------- *)

\* Variant: the environment label is left out of the providers.
ProvidersWithoutEnv(env, apps) == apps

\* createDenyRule, lines 311-318: the environment label, then one entry per
\* application label.
Providers(env, apps) == <<env>> \o apps

\* Variant: a rule whose creation failed is tried again.
NextRuleRetrying(i, ok, n) == IF ok THEN i + 1 ELSE i

\* Variant: the first failed creation ends the loop.
NextRuleStoppingOnError(i, ok, n) == IF ok THEN i + 1 ELSE n + 1

\* Lines 496-509: the index of the range loop over the n entries of
\* denyRules after the iteration at index i; the error branch only logs.
NextRule(i, ok, n) == i + 1

\* Lines 496-509: one iteration of the loop over denyRules.
CreateDenyRule ==
    /\ pc = "createDenyRules"
    /\ di <= Len(denyRules)
    /\ LET dr == denyRules[di]
       IN  ruleReqs' = Append(ruleReqs,
              [ruleset   |-> rulesetHref,
               env       |-> dr.env,
               providers |-> Providers(dr.env, dr.apps),
               consumers |-> <<ipListHref>>,
               ingress_services |-> <<dr.service>>,
               enabled   |-> TRUE])
    /\ \E ok \in BOOLEAN :
         /\ ruleResults' = Append(ruleResults, ok)
         /\ doneDenyRules' = IF ok THEN AddInt64(doneDenyRules, 1)
                                   ELSE doneDenyRules
         /\ di' = NextRule(di, ok, Len(denyRules))
    /\ UNCHANGED <<auxVars, catalogVars, pc, loopVars, sem, wg, appsNoTraffic, appsMu,
                   denyRules, doneQueries, task, outcome, totalDenyRules,
                   emptyReported>>

\* Line 513: the rule set is reported as empty when denyRules is empty.
ReportsEmpty(rules) == Len(rules) = 0

\* Lines 512-526: the loop is over (or was skipped), the empty rule set is
\* reported, main() returns.
Finish ==
    /\ pc = "createDenyRules"
    /\ di > Len(denyRules)
    /\ emptyReported' = ReportsEmpty(denyRules)
    /\ pc' = "done"
    /\ UNCHANGED <<auxVars, catalogVars, loopVars, sem, wg, appsNoTraffic, appsMu,
                   denyRules, doneQueries, task, outcome, totalDenyRules,
                   doneDenyRules, di, ruleReqs, ruleResults>>

(* ------------------------------- Next --------------------------------- *)

Next ==
    \/ GetEnvs
    \/ GetRansomServices
    \/ CreateRuleset
    \/ GetWorkloadsForEnv
    \/ CountQueries
    \/ GetIPListHref
    \/ ResolveIPList
    \/ Launch
    \/ Join
    \/ \E t \in Triples : StartTask(t)
    \/ \E t \in Triples : SubmitQuery(t)
    \/ \E t \in Triples : PollQuery(t)
    \/ \E t \in Triples : PollTimeout(t)
    \/ \E t \in Triples : LockApps(t)
    \/ \E t \in Triples : AppendApp(t)
    \/ \E t \in Triples : CountDone(t)
    \/ \E t \in Triples : ReleaseSem(t)
    \/ \E t \in Triples : WgDone(t)
    \/ CreateDenyRule
    \/ Finish

Spec == Init /\ [][Next]_vars

(* ----------------------- apiRequestWithRetry ------------------------- *)

\* retries := 3
retries == 3

\* What one attempt can get: no response (httpClient.Do returned an error)
\* or a response with a status code.
StatusCodes == {199, 200, 204, 299, 300, 404, 500}
AttemptAnswers == {0} \cup StatusCodes
NoResponse(a) == a = 0

\* Variant: every status below 300 is taken as a success.
IsSuccessBelow300(code) == code < 300

\* Line 100: resp.StatusCode >= 200 && resp.StatusCode < 300
IsSuccess(code) == code >= 200 /\ code < 300

\* The backing system of a call that is run on its own: main() is not run.
NoCatalog == [apps |-> [e \in EnvSet |-> <<>>], svcs |-> <<>>]

\* The call starts: whether json.Marshal and http.NewRequest accept the
\* arguments, and what each attempt would get, are the inputs.
InitTransport ==
    /\ backend = NoCatalog
    /\ InitMain
    /\ wl = IdleWl
    /\ qry = IdleQry
    /\ \E b \in BOOLEAN :
       \E ans \in [1..retries -> AttemptAnswers] :
         http = [IdleHttp EXCEPT !.pc = "loop", !.buildable = b,
                                 !.answers = ans]
    /\ us = IdleUs

\* Lines 73-80 and 83-107: one iteration of the loop.  json.Marshal and
\* http.NewRequest fail on the first iteration or never: an error of
\* theirs is returned at once.  A response with a success status returns
\* its body; anything else is kept as lastErr.
TransportAttempt ==
    /\ http.pc = "loop"
    /\ http.i < retries
    /\ LET a == http.answers[http.i + 1]
       IN  http' =
             IF ~http.buildable
             THEN [http EXCEPT !.pc = "returned", !.result = "error"]
             ELSE IF ~NoResponse(a) /\ IsSuccess(a)
             THEN [http EXCEPT !.pc = "returned", !.result = "data",
                               !.sent = @ + 1, !.data = http.i + 1]
             ELSE [http EXCEPT !.sent = @ + 1, !.i = @ + 1]
    /\ UNCHANGED <<mainVars, wl, qry, us>>

\* Line 109: the loop is over without a success.
TransportGiveUp ==
    /\ http.pc = "loop"
    /\ http.i >= retries
    /\ http' = [http EXCEPT !.pc = "returned", !.result = "error"]
    /\ UNCHANGED <<mainVars, wl, qry, us>>

NextTransport == TransportAttempt \/ TransportGiveUp

SpecTransport == InitTransport /\ [][NextTransport]_vars

(* ------------------------ getWorkloadsForEnv -------------------------- *)

\* Largest number of workloads in an answer, and of labels on a workload.
MaxWorkloads == 2
MaxLabels == 2

\* The labels workloads carry: two applications of the same name with
\* different hrefs, and a label that is not an application.
WorkloadLabels ==
    {[href |-> "h1", key |-> "app", value |-> "web"],
     [href |-> "h2", key |-> "app", value |-> "web"],
     [href |-> "h3", key |-> "env", value |-> "prod"]}

SeqsUpTo(S, n) == UNION {[1..k -> S] : k \in 0..n}

\* Variant: every label is taken, whatever its key.
IsAppAnyKey(l) == TRUE

\* Line 160: l.Key == "app"
IsApp(l) == l.key = "app"

\* Line 161: uniqueApps[l.Href] = l.  The map is the set of its values;
\* an entry with the same href is replaced.
MapPut(m, l) == {x \in m : x.href # l.href} \cup {l}

\* Lines 159-163: the loop over the labels of one workload.
RECURSIVE PutApps(_, _)
PutApps(m, labels) ==
    IF labels = <<>> THEN m
    ELSE PutApps(IF IsApp(Head(labels)) THEN MapPut(m, Head(labels)) ELSE m,
                 Tail(labels))

\* The answer of the backing system has been decoded (lines 145-155).
InitWorkloads ==
    /\ backend = NoCatalog
    /\ InitMain
    /\ http = IdleHttp
    /\ qry = IdleQry
    /\ \E ws \in SeqsUpTo(SeqsUpTo(WorkloadLabels, MaxLabels), MaxWorkloads) :
         wl = [IdleWl EXCEPT !.pc = "loop", !.workloads = ws]
    /\ us = IdleUs

\* Lines 158-164: one iteration of the loop over the workloads.
AddWorkload ==
    /\ wl.pc = "loop"
    /\ wl.w <= Len(wl.workloads)
    /\ wl' = [wl EXCEPT !.uniqueApps = PutApps(@, wl.workloads[wl.w]),
                        !.w = @ + 1]
    /\ UNCHANGED <<mainVars, http, qry, us>>

\* Lines 165-169: the values of the map are appended in the order the
\* range over the map yields them.
CollectApps ==
    /\ wl.pc = "loop"
    /\ wl.w > Len(wl.workloads)
    /\ \E order \in [1..Cardinality(wl.uniqueApps) -> wl.uniqueApps] :
         /\ Range(order) = wl.uniqueApps
         /\ wl' = [wl EXCEPT !.apps = order, !.pc = "returned"]
    /\ UNCHANGED <<mainVars, http, qry, us>>

NextWorkloads == AddWorkload \/ CollectApps

SpecWorkloads == InitWorkloads /\ [][NextWorkloads]_vars

(* ------------------------ runSingleAsyncQuery ------------------------- *)

\* What the POST of a query can be answered with: a transport error, a
\* body that is not a JSON object, or an object whose href is absent, not
\* a string, empty, or the reference of the job.
HrefFields == {Absent, Num(7), Str(""), Str("/j1")}
SubmitAnswers ==
    {[err |-> e, href |-> Absent] : e \in {"transport", "json"}} \cup
    {[err |-> "nil", href |-> h] : h \in HrefFields}

\* What the GET of a job can be answered with: a transport error, a body
\* that is not a JSON object, or an object with any status and flows_count.
StatusFields ==
    {Absent, Num(1), Str("pending"), Str("failed"), Str("completed")}
FlowsFields == {Absent, Str("2"), Num(0), Num(2)}
PollAnswers ==
    {[err |-> e, status |-> Absent, flows_count |-> Absent] :
        e \in {"transport", "json"}} \cup
    {[err |-> "nil", status |-> st, flows_count |-> fc] :
        st \in StatusFields, fc \in FlowsFields}

\* v, _ := field.(string) and v, _ := field.(float64): the zero value when
\* the field is absent or of another type.
AsString(field) == IF field.kind = "string" THEN field.s ELSE ""
AsFloat64(field) == IF field.kind = "number" THEN field.n ELSE 0

\* Variant: an empty href is taken as the reference of a job.
HrefMissingUnlessString(field) == field.kind # "string"

\* href, ok := resp["href"].(string); !ok || href == ""  (lines 252-253)
HrefMissing(field) == field.kind # "string" \/ field.s = ""

\* The call returns (ok, err).
QueryReturned(rec, ok, err) ==
    [rec EXCEPT !.pc = "returned", !.ok = ok, !.err = err]

\* Variant: the deadline is noticed but the loop goes on.
AfterDeadlinePolling(rec) == [rec EXCEPT !.err = "timeout"]

\* Lines 263-264: case <-timeout: return false, error
AfterDeadline(rec) == QueryReturned(rec, FALSE, "timeout")

\* The call starts.
InitQuery ==
    /\ backend = NoCatalog
    /\ InitMain
    /\ http = IdleHttp
    /\ wl = IdleWl
    /\ qry = [IdleQry EXCEPT !.pc = "submit"]
    /\ us = IdleUs

\* Lines 244-259: the POST, the decoding of its answer, the href.
QuerySubmit ==
    /\ qry.pc = "submit"
    /\ \E a \in SubmitAnswers :
         LET rec == [qry EXCEPT !.log = Append(@, [req |-> "POST", ans |-> a])]
         IN  qry' = IF a.err # "nil"
                    THEN QueryReturned(rec, FALSE, a.err)
                    ELSE IF HrefMissing(a.href)
                    THEN QueryReturned(rec, FALSE, "nohref")
                    ELSE [rec EXCEPT !.pc = "select", !.href = a.href.s]
    /\ UNCHANGED <<mainVars, http, wl, us>>

\* The polls of the job made so far.
PollsMade(rec) ==
    Cardinality({i \in 1..Len(rec.log) : rec.log[i].req # "POST"})

\* Lines 265-280: case <-ticker.C: the GET of the job, the decoding of its
\* answer, the test of the status.
QueryPoll ==
    /\ qry.pc = "select"
    /\ PollsMade(qry) < MaxPolls
    /\ \E a \in PollAnswers :
         LET rec == [qry EXCEPT
                       !.log = Append(@, [req |-> qry.href, ans |-> a])]
         IN  qry' = IF a.err # "nil"
                    THEN QueryReturned(rec, FALSE, a.err)
                    ELSE IF PollCompleted(AsString(a.status))
                    THEN QueryReturned(rec,
                            HasFlows(AsFloat64(a.flows_count)), "nil")
                    ELSE rec
    /\ UNCHANGED <<mainVars, http, wl, us>>

\* Lines 263-264: case <-timeout.
QueryDeadline ==
    /\ qry.pc = "select"
    /\ qry' = AfterDeadline(qry)
    /\ UNCHANGED <<mainVars, http, wl, us>>

NextQuery == QuerySubmit \/ QueryPoll \/ QueryDeadline

SpecQuery == InitQuery /\ [][NextQuery]_vars

(* --------------------------- vocabulary ------------------------------- *)

\* The triples and groups main() iterates over.
PlannedTriples ==
    {t \in Triples :
        /\ t[2] \in Range(services)
        /\ \E i \in 1..Len(envInfos) :
              envInfos[i].env = t[1] /\ t[3] \in Range(envInfos[i].apps)}

PlannedGroups ==
    {g \in Groups :
        /\ g[2] \in Range(services)
        /\ \E i \in 1..Len(envInfos) : envInfos[i].env = g[1]}

EnvApps(e) ==
    UNION {Range(envInfos[i].apps) :
             i \in {j \in 1..Len(envInfos) : envInfos[j].env = e}}

EnvIdx(e) == CHOOSE i \in 1..Len(envInfos) : envInfos[i].env = e
SvcIdx(s) == CHOOSE j \in 1..Len(services) : services[j] = s

\* The loops of main() are past the join of group g.
GroupJoined(g) ==
    \/ pc \in {"createDenyRules", "done"}
    \/ /\ pc \in {"launch", "wait"}
       /\ \/ EnvIdx(g[1]) < ei
          \/ EnvIdx(g[1]) = ei /\ SvcIdx(g[2]) < si

\* submitTrafficQuery has returned in goroutine t and the goroutine still
\* holds what it returned and what the call saw.
CallReturned(t) == task[t].pc \in {"lock", "append", "count"}

\* The triple the call of goroutine t was made for.
Queried(t) == <<task[t].env, task[t].svc, t[3]>>

\* Goroutine t has taken a slot of sem and not given it back.
HoldsSlot(t) ==
    task[t].pc \in {"start", "submit", "poll", "lock", "append", "count",
                    "release"}

\* Goroutine t exists and has not ended.
Running(t) == task[t].pc \notin {"idle", "done"}

\* The last answer goroutine t got from the backing system.
LastSeen(t) == IF task[t].r89 # "none" THEN task[t].r89 ELSE task[t].r24

\* The applications of group g whose verification returned (true, nil).
NoTrafficApps(g) ==
    {a \in EnvApps(g[1]) : outcome[<<g[1], g[2], a>>] = "noTraffic"}

(* ------------------------------ claims -------------------------------- *)

C2_JoinBarrier ==
    /\ \A i \in 1..Len(denyRules) :
         \A a \in EnvApps(denyRules[i].env) :
           outcome[<<denyRules[i].env, denyRules[i].service, a>>] # "none"
    /\ \A i \in 1..Len(ruleReqs) :
         \A a \in EnvApps(ruleReqs[i].env) :
           outcome[<<ruleReqs[i].env, ruleReqs[i].ingress_services[1], a>>]
              # "none"

C2_Witness ==
    /\ Len(ruleReqs) > 0
    /\ \E i \in 1..Len(denyRules) :
         /\ Cardinality(EnvApps(denyRules[i].env)) >= 2
         /\ \E a \in EnvApps(denyRules[i].env) :
              /\ a \notin Range(denyRules[i].apps)
              /\ outcome[<<denyRules[i].env, denyRules[i].service, a>>]
                    = "error"

\* C3: at most K goroutines hold a slot at any time, counted over all
\* groups.
C3_AtMostKInFlight ==
    Cardinality({t \in Triples : HoldsSlot(t)}) <= K

C3_Witness ==
    /\ pc = "launch"
    /\ ai = 3
    /\ Cardinality({t \in Triples : HoldsSlot(t)}) = K
    /\ \A t \in Triples : HoldsSlot(t) => task[t].pc = "poll"

\* C4: when the 24-hour query of a verification completed with flows, no
\* 89-day query is submitted by that verification and it has returned
\* (false, nil).
C4_ShortCircuit ==
    \A t \in Triples :
       task[t].r24 = "flows" =>
          /\ task[t].r89 = "none"
          /\ task[t].pc \in ReturnedPcs
          /\ ~task[t].ok
          /\ task[t].err = "nil"
          /\ outcome[Queried(t)] = "hasTraffic"

C4_Witness ==
    \E t \in Triples : task[t].r24 = "flows" /\ task[t].pc = "count"

\* C5: a verification that met a failed submission, a failed poll or the
\* polling deadline, in either phase, has returned an error and not
\* (true, nil); an application whose verification returned an error is not
\* in the accumulator of its group.
MetFailure(t) ==
    \/ task[t].r24 \in {"error", "nohref"}
    \/ task[t].r89 \in {"error", "nohref"}
    \/ CallReturned(t) /\ LastSeen(t) \in {"submitted", "pending", "failed"}

C5_FailureIsAnError ==
    /\ \A t \in Triples :
         MetFailure(t) =>
            /\ task[t].pc \in ReturnedPcs
            /\ task[t].err # "nil"
            /\ ~task[t].ok
            /\ outcome[Queried(t)] = "error"
    /\ \A t \in Triples :
         outcome[t] = "error" =>
            t[3] \notin Range(appsNoTraffic[LaunchGroup(t)])

C5_Witness ==
    \E t, u \in Triples :
       /\ LaunchGroup(t) = LaunchGroup(u)
       /\ task[t].pc = "count"
       /\ task[t].r24 = "zero" /\ task[t].r89 = "error"
       /\ outcome[u] = "error" /\ task[u].pc = "done"
       /\ Len(appsNoTraffic[LaunchGroup(t)]) = 1

\* C6: a verification whose polling only ever saw the job pending or
\* failed has returned the timeout error, not a boolean outcome, and its
\* application is not in the accumulator of its group.
C6_NeverCompletedIsTimeout ==
    \A t \in Triples :
       (CallReturned(t) /\ LastSeen(t) \in {"pending", "failed"}) =>
          /\ task[t].err = "timeout"
          /\ ~task[t].ok
          /\ outcome[Queried(t)] = "error"
          /\ t[3] \notin Range(appsNoTraffic[LaunchGroup(t)])

C6_Witness ==
    \E t, u \in Triples :
       /\ task[t].pc = "count" /\ task[t].r24 = "failed"
       /\ task[t].err = "timeout"
       /\ task[u].pc = "count" /\ task[u].r24 = "zero"
       /\ task[u].r89 = "pending" /\ task[u].err = "timeout"

\* C7: a failed verification stops nothing: once no goroutine is running
\* main() is not held back (all slots are free, the join counter is zero),
\* and rule creation is reached only with every planned triple verified.
C7_FailureContained ==
    /\ (pc \in {"launch", "wait"} /\ \A t \in Triples : ~Running(t)) =>
          (sem = 0 /\ wg = 0)
    /\ pc \in {"createDenyRules", "done"} =>
          \A t \in PlannedTriples :
             task[t].pc = "done" /\ outcome[t] # "none"

C7_Witness ==
    /\ pc = "done"
    /\ Len(ruleReqs) = 2
    /\ \E t, u, v \in PlannedTriples :
         /\ outcome[t] = "error"
         /\ u # t /\ LaunchGroup(u) = LaunchGroup(t)
         /\ EnvIdx(v[1]) > EnvIdx(t[1])
         /\ outcome[u] = "noTraffic" /\ outcome[v] = "noTraffic"

\* C8: once a group has joined, its accumulator holds, each once, exactly
\* the applications of its environment whose verification returned
\* (true, nil), and denyRules has the entry of the group accordingly.
C8_FindingIsExactlyTheNoTrafficApps ==
    \A g \in PlannedGroups :
       GroupJoined(g) =>
          /\ Range(appsNoTraffic[g]) = NoTrafficApps(g)
          /\ Len(appsNoTraffic[g]) = Cardinality(NoTrafficApps(g))
          /\ Cardinality({i \in 1..Len(denyRules) :
                             /\ denyRules[i].env = g[1]
                             /\ denyRules[i].service = g[2]
                             /\ denyRules[i].apps = appsNoTraffic[g]})
                = IF NoTrafficApps(g) = {} THEN 0 ELSE 1

C8_Witness ==
    \E g \in PlannedGroups :
       /\ GroupJoined(g)
       /\ Cardinality(NoTrafficApps(g)) = 1
       /\ \E a, b \in EnvApps(g[1]) :
            /\ outcome[<<g[1], g[2], a>>] = "error"
            /\ outcome[<<g[1], g[2], b>>] = "hasTraffic"

C10_GroupsDoNotOverlap ==
    \A t \in Triples : Running(t) => LaunchGroup(t) = CurGroup

C10_Witness ==
    \E t, u, v \in Triples :
       /\ LaunchGroup(t) = LaunchGroup(u) /\ t # u
       /\ task[t].pc = "done" /\ task[u].pc = "done"
       /\ LaunchGroup(v) # LaunchGroup(t)
       /\ task[v].pc = "poll"

\* A goroutine whose verification call has finished and been counted.
Counted(t) == task[t].pc \in {"release", "wgdone", "done"}

\* C11: the counter of completed verifications starts at 0; it is at every
\* moment the number of goroutines that have passed the increment, whatever
\* their call returned (no traffic, traffic or an error); it never exceeds
\* totalQueries and equals it once the last group has joined; every step
\* either leaves it alone or is the increment of one goroutine and adds
\* exactly 1.
C11_DoneQueriesCountsFinishedCalls ==
    /\ [](/\ doneQueries = Cardinality({t \in Triples : Counted(t)})
          /\ doneQueries <= totalQueries
          /\ pc = "getEnvs" => doneQueries = 0
          /\ pc \in {"createDenyRules", "done"} =>
                doneQueries = totalQueries)
    /\ [][\/ doneQueries' = doneQueries
          \/ /\ doneQueries' = doneQueries + 1
             /\ \E t \in Triples :
                   task[t].pc = "count" /\ task'[t].pc = "release"]_vars

C11_Witness ==
    /\ pc = "wait"
    /\ totalQueries = 3
    /\ doneQueries = 2
    /\ \E t, u, v \in PlannedTriples :
         /\ outcome[t] = "error" /\ Counted(t)
         /\ outcome[u] = "hasTraffic" /\ Counted(u)
         /\ outcome[v] = "noTraffic" /\ task[v].pc = "count"

\* main() has the total of line 423 and is past the test of line 424.
TotalFixed ==
    pc \in {"noQueries", "getIPListHref", "resolveIPList", "launch", "wait",
            "createDenyRules", "done"}

\* C12: totalQueries is computed before any goroutine exists; from then on
\* it is the number of (environment, service, application) triples over
\* the environments kept in envInfos (those with applications) and the
\* services, that is the sum of application count x service count; no
\* later step changes it.
C12_TotalFixedBeforeFanOut ==
    /\ [](/\ TotalFixed => totalQueries = Cardinality(PlannedTriples)
          /\ (\E t \in Triples : task[t].pc # "idle") => TotalFixed)
    /\ [][totalQueries' # totalQueries =>
             /\ pc = "countQueries"
             /\ \A t \in Triples : task[t].pc = "idle"]_vars

C12_Witness ==
    /\ pc = "createDenyRules"
    /\ Len(envInfos) = 2
    /\ Len(envInfos[1].apps) = 2
    /\ totalQueries = 3
    /\ \E t \in PlannedTriples : outcome[t] = "error"

\* The environments the backing system holds no application for, once
\* main() has asked for the applications of every environment.
EmptyEnvs ==
    IF pc \in {"getEnvs", "getRansomServices", "createRuleset",
               "getWorkloadsForEnv"}
    THEN {}
    ELSE {e \in Range(envs) : backend.apps[e] = <<>>}

\* C13: an environment without applications is not among the groups main()
\* iterates over: no goroutine is launched for it, no call is made or has
\* returned for it, nothing is POSTed for it, and totalQueries counts the
\* triples of the other environments only.
C13_EmptyEnvIsSkipped ==
    \A e \in EmptyEnvs :
       /\ \A g \in PlannedGroups : g[1] # e
       /\ \A i \in 1..Len(envInfos) : envInfos[i].env # e
       /\ \A t \in Triples :
            /\ t[1] = e => (task[t].pc = "idle" /\ outcome[t] = "none")
            /\ task[t].env # e
       /\ \A i \in 1..Len(ruleReqs) : ruleReqs[i].env # e
       /\ TotalFixed =>
             totalQueries =
                Cardinality({t \in PlannedTriples : t[1] \notin EmptyEnvs})

C13_Witness ==
    /\ pc = "done"
    /\ EmptyEnvs = {EnvLabels[1]}
    /\ totalQueries = 2
    /\ Len(services) = 2
    /\ Len(ruleReqs) = 2

\* The (environment, service) pair of a POSTed payload / of a finding.
ReqPair(i) == <<ruleReqs[i].env, ruleReqs[i].ingress_services[1]>>
RulePair(i) == <<denyRules[i].env, denyRules[i].service>>

\* C14: the creation calls made so far are, in order, one per entry of
\* denyRules; no two entries of denyRules and no two calls are for the same
\* (environment, service) pair, also when a call failed; when main() is
\* done every entry of denyRules has had exactly one call.
C14_OneCreationCallPerFinding ==
    /\ Len(ruleReqs) <= Len(denyRules)
    /\ Len(ruleResults) = Len(ruleReqs)
    /\ \A i \in 1..Len(ruleReqs) :
         /\ ReqPair(i) = RulePair(i)
         /\ SubSeq(ruleReqs[i].providers, 2, Len(ruleReqs[i].providers))
               = denyRules[i].apps
    /\ \A i, j \in 1..Len(ruleReqs) : ReqPair(i) = ReqPair(j) => i = j
    /\ \A i, j \in 1..Len(denyRules) : RulePair(i) = RulePair(j) => i = j
    /\ pc = "done" => Len(ruleReqs) = Len(denyRules)

C14_Witness ==
    /\ pc = "done"
    /\ Len(denyRules) = 2
    /\ ruleResults = <<FALSE, TRUE>>
    /\ Len(denyRules[1].apps) = 2

\* C15: a creation call that failed leaves main() in the loop over
\* denyRules, past the entry that failed: the call for the next entry can
\* be made, main() is done only when every later entry has had its call,
\* and doneDenyRules counts the calls that succeeded.
C15_FailedCreationDoesNotStopSynthesis ==
    /\ \A i \in 1..Len(ruleResults) :
         ~ruleResults[i] =>
            /\ pc \in {"createDenyRules", "done"}
            /\ di > i
            /\ (pc = "createDenyRules" /\ Len(ruleReqs) < Len(denyRules)) =>
                  ENABLED CreateDenyRule
            /\ pc = "done" =>
                  \A j \in (i + 1)..Len(denyRules) :
                     j <= Len(ruleReqs) /\ ReqPair(j) = RulePair(j)
    /\ doneDenyRules = Cardinality({i \in 1..Len(ruleResults) : ruleResults[i]})

C15_Witness ==
    /\ pc = "createDenyRules"
    /\ Len(denyRules) = 2
    /\ Len(ruleReqs) = 2
    /\ ~ruleResults[1]
    /\ doneDenyRules = 1

\* C16: the payload POSTed for entry i of denyRules has as providers the
\* environment of the entry followed by the applications of the entry,
\* each once and no other; its consumers are the one ip_list resolved by
\* getIPListHref; its ingress_services are the one service of the entry;
\* it is enabled.
C16_PayloadShape ==
    \A i \in 1..Len(ruleReqs) :
       LET req  == ruleReqs[i]
           dr   == denyRules[i]
           tail == [j \in 1..Len(req.providers) - 1 |-> req.providers[j + 1]]
       IN  /\ Len(req.providers) = 1 + Len(dr.apps)
           /\ req.providers[1] = dr.env
           /\ Range(tail) = Range(dr.apps)
           /\ Cardinality(Range(tail)) = Len(tail)
           /\ Range(tail) \subseteq AppSet
           /\ req.consumers = <<ipListHref>>
           /\ ipListHref # ""
           /\ req.ingress_services = <<dr.service>>
           /\ req.enabled = TRUE
           /\ req.ruleset = rulesetHref

C16_Witness ==
    \E i \in 1..Len(ruleReqs) :
       /\ Len(ruleReqs[i].providers) = 4
       /\ ruleReqs[i].providers[2] # AppLabels[1]

\* C17: getIPListHref returns an href and no error only when the answer
\* holds exactly one IP list; for an empty answer and for an answer with
\* several IP lists it returns an error, which ends main().
C17_ExactlyOneMatchOrError ==
    [][pc = "resolveIPList" =>
         IF Len(lists) = 1
         THEN pc' = "launch" /\ ipListHref' = lists[1]
         ELSE pc' = "fatal" /\ ipListHref' = ""]_vars

\* main() was ended by log.Fatalf after the total was computed: the only
\* call left that can fail there is getIPListHref (lines 436-440).
ResolutionFailed == pc = "fatal" /\ totalQueries > 0

\* C18: when getIPListHref returned an error main() has ended: no step
\* follows, no goroutine was launched, no verification has an outcome and
\* no deny rule was collected or POSTed; goroutines and POSTed deny rules
\* exist only with a resolved ipListHref.
C18_FailedResolutionEndsRun ==
    /\ ResolutionFailed =>
          /\ ~ENABLED Next
          /\ ipListHref = ""
          /\ \A t \in Triples : task[t].pc = "idle" /\ outcome[t] = "none"
          /\ sem = 0 /\ wg = 0 /\ doneQueries = 0
          /\ denyRules = <<>> /\ ruleReqs = <<>>
    /\ ((\E t \in Triples : task[t].pc # "idle") \/ ruleReqs # <<>>) =>
          ipListHref \in Range(IpLists)

C18_Witness ==
    /\ ResolutionFailed
    /\ totalQueries = 3
    /\ Len(envInfos) = 2
    /\ rulesetHref # ""

\* The environments main() has asked the applications of.
AskedEnvs == {envs[i] : i \in {j \in 1..Len(envs) : j < li}}

\* getWorkloadsForEnv returned an error for an environment that has
\* applications: the environment was asked for and is not in envInfos.
AppSetLoadFailed ==
    \E e \in AskedEnvs :
       /\ backend.apps[e] # <<>>
       /\ \A i \in 1..Len(envInfos) : envInfos[i].env # e

\* C19: when a load of the catalog phase failed (getEnvs,
\* getRansomServices, or getWorkloadsForEnv for one environment) main()
\* ends: no goroutine is launched, no verification has an outcome and no
\* deny rule is POSTed afterwards.
C19_CatalogFailureEndsRun ==
    /\ (pc = "fatal" /\ rulesetHref = "") =>
          /\ ~ENABLED Next
          /\ \A t \in Triples : task[t].pc = "idle" /\ outcome[t] = "none"
          /\ ruleReqs = <<>>
    /\ AppSetLoadFailed =>
          /\ \A t \in Triples : task[t].pc = "idle" /\ outcome[t] = "none"
          /\ ruleReqs = <<>>

\* The findings main() has collected, and the ones it has POSTed, with the
\* applications of each taken as a set.
Findings ==
    {<<denyRules[i].env, denyRules[i].service, Range(denyRules[i].apps)>> :
        i \in 1..Len(denyRules)}

PostedFindings ==
    {<<ruleReqs[i].env, ruleReqs[i].ingress_services[1],
       {ruleReqs[i].providers[j] : j \in 2..Len(ruleReqs[i].providers)}>> :
        i \in 1..Len(ruleReqs)}

\* The findings as a function of the catalog (envInfos, services) and of
\* what each verification returned, and of nothing else.
FindingsOf(infos, svcs, out) ==
    {f \in {<<infos[i].env, svcs[j],
              {a \in Range(infos[i].apps) :
                  out[<<infos[i].env, svcs[j], a>>] = "noTraffic"}>> :
               i \in 1..Len(infos), j \in 1..Len(svcs)} :
        f[3] # {}}

\* C20: when the loops over the groups are left, the set of findings is
\* determined by the catalog and by what each verification returned: it
\* is FindingsOf(envInfos, services, outcome) whatever the order in which
\* the goroutines were launched, ran and finished; so two runs with the
\* same catalog and the same answers end with the same set of findings.
\* The deny rules POSTed at the end are the same set.
C20_FindingsDeterminedByAnswers ==
    /\ pc \in {"createDenyRules", "done"} =>
          Findings = FindingsOf(envInfos, services, outcome)
    /\ pc = "done" =>
          PostedFindings = FindingsOf(envInfos, services, outcome)

\* Two goroutines of one group finished in the order opposite to the one
\* they were launched in, and the environment is not listed in the order
\* of the backing system.
C20_Witness ==
    /\ pc = "done"
    /\ \E i \in 1..Len(denyRules) :
         LET apps == envInfos[EnvIdx(denyRules[i].env)].apps
         IN  /\ Len(denyRules[i].apps) = 2
             /\ Len(apps) = 3
             /\ apps # backend.apps[denyRules[i].env]
             /\ \E m, n \in 1..3 :
                  /\ m < n
                  /\ denyRules[i].apps = <<apps[n], apps[m]>>

\* main() has returned: after the rule creation, or at line 426 because
\* there was nothing to query.
Returns == pc \in {"done", "noQueries"}

\* C21: when main() returns with a rule set created and no finding, the
\* log line that reports the rule set as empty has been printed.
C21_EmptyRulesetReported ==
    (Returns /\ rulesetHref # "" /\ Len(denyRules) = 0) => emptyReported

\* Attempt j of the call got a response with a status code in 200..299.
GotSuccess(j) == http.answers[j] \in 200..299

\* The first attempt that got a success, 0 when none did.
FirstSuccess ==
    IF \E j \in 1..retries : GotSuccess(j)
    THEN CHOOSE j \in 1..retries :
            GotSuccess(j) /\ \A k \in 1..(j - 1) : ~GotSuccess(k)
    ELSE 0

\* The part of C22 about attempts and payload: never more than 3 attempts
\* are sent; the body returned is the one of the first attempt that got a
\* 2xx response, and no attempt is sent after it.
AttemptsAndPayload ==
    /\ http.sent <= retries
    /\ http.result = "data" =>
          /\ http.data = FirstSuccess
          /\ http.data # 0
          /\ http.sent = http.data

\* All 3 attempts were sent and none got a 2xx response.
AllAttemptsFailed ==
    http.sent = retries /\ \A j \in 1..retries : ~GotSuccess(j)

\* C22 as stated: at most 3 attempts, the payload of the first attempt
\* with a 2xx response and no attempt after it, and an error only after
\* all 3 attempts failed.
C22_ErrorOnlyAfterThreeAttempts ==
    /\ AttemptsAndPayload
    /\ http.result = "error" => AllAttemptsFailed

\* C22, amended: as above, but an error is returned either after all 3
\* attempts failed or, without any attempt, when the request cannot be
\* built; a call that returned has returned one of the two.
C22_ErrorAfterThreeAttemptsOrUnbuildable ==
    /\ AttemptsAndPayload
    /\ http.result = "error" =>
          \/ AllAttemptsFailed /\ http.buildable
          \/ ~http.buildable /\ http.sent = 0
    /\ (http.pc = "returned" /\ http.buildable) =>
          (http.result = "data" <=> FirstSuccess # 0)
    /\ http.pc = "returned" => http.result \in {"data", "error"}

C22_Witness ==
    /\ http.pc = "returned"
    /\ http.result = "data"
    /\ http.answers = <<0, 500, 200>>
    /\ http.sent = 3

\* The labels with key "app" on the workloads of the answer.
AppLabelsOnWorkloads ==
    {l \in UNION {Range(wl.workloads[i]) : i \in 1..Len(wl.workloads)} :
        l.key = "app"}

\* C23: the list getWorkloadsForEnv returns has no two labels with the
\* same href, holds only labels with key "app", and its hrefs are exactly
\* the hrefs of the "app" labels found on the workloads of the answer.
C23_AppSetDeduplicatedByHref ==
    wl.pc = "returned" =>
       /\ \A i, j \in 1..Len(wl.apps) :
            wl.apps[i].href = wl.apps[j].href => i = j
       /\ \A i \in 1..Len(wl.apps) : wl.apps[i].key = "app"
       /\ {wl.apps[i].href : i \in 1..Len(wl.apps)}
             = {l.href : l \in AppLabelsOnWorkloads}
       /\ Range(wl.apps) \subseteq AppLabelsOnWorkloads

\* Two workloads share an application, one carries a second application of
\* the same name, and a label that is not an application is present.
C23_Witness ==
    /\ wl.pc = "returned"
    /\ Len(wl.workloads) = 2
    /\ Len(wl.apps) = 2
    /\ wl.apps[1].href = "h2"
    /\ wl.workloads[1] =
          <<[href |-> "h1", key |-> "app", value |-> "web"],
            [href |-> "h3", key |-> "env", value |-> "prod"]>>
    /\ wl.workloads[2] =
          <<[href |-> "h1", key |-> "app", value |-> "web"],
            [href |-> "h2", key |-> "app", value |-> "web"]>>

\* The call returned a boolean outcome.
BooleanOutcome == qry.pc = "returned" /\ qry.err = "nil"

\* The answer the call returned on.
LastAnswer == qry.log[Len(qry.log)].ans

\* C24: a call returns a boolean only when the answer to its submission
\* carried a job href and the poll it returned on carried the status
\* completed and a numeric flow count; an answer that lacks one of them is
\* never read as zero flows.
C24_MissingFieldIsAnError ==
    BooleanOutcome =>
       /\ Len(qry.log) >= 2
       /\ qry.log[1].ans.href.kind = "string"
       /\ qry.log[1].ans.href.s # ""
       /\ LastAnswer.status = Str("completed")
       /\ LastAnswer.flows_count.kind = "number"

\* Goroutine t is between appsMu.Lock() and appsMu.Unlock().
InAppend(t) == task[t].pc = "append"

\* Goroutine t got (true, nil) and is past its append.
HasAppended(t) ==
    outcome[t] = "noTraffic" /\ task[t].pc \in {"count", "release", "wgdone", "done"}

\* C25: at most one goroutine of a group is inside the append, and it is
\* the holder of the mutex of the group; at every moment the accumulator
\* of a group holds exactly one entry for each goroutine of the group that
\* got (true, nil) and is past its append, so that after the join it holds
\* one entry for each goroutine that got (true, nil).
C25_AppendsAreExclusiveAndKept ==
    \A g \in Groups :
       LET members == {t \in Triples : LaunchGroup(t) = g}
       IN  /\ Cardinality({t \in members : InAppend(t)}) <= 1
           /\ \A t \in members : InAppend(t) <=> appsMu[g] = t
           /\ Len(appsNoTraffic[g]) =
                 Cardinality({t \in members : HasAppended(t)})
           /\ Range(appsNoTraffic[g]) =
                 {t[3] : t \in {u \in members : HasAppended(u)}}
           /\ (g \in PlannedGroups /\ GroupJoined(g)) =>
                 Len(appsNoTraffic[g]) =
                    Cardinality({t \in members : outcome[t] = "noTraffic"})

\* One goroutine is inside the append while another one of the same group,
\* which also got (true, nil), waits for the mutex.
C25_Witness ==
    \E t, u \in Triples :
       /\ t # u /\ LaunchGroup(t) = LaunchGroup(u)
       /\ InAppend(t)
       /\ task[u].pc = "lock"
       /\ Len(appsNoTraffic[LaunchGroup(t)]) = 1

\* wg.Wait() of a group has returned and no goroutine of a later group has
\* been launched yet (or there is no later group).
BarrierReturned ==
    \/ pc = "launch" /\ ai = 1 /\ (ei > 1 \/ si > 1)
    \/ pc \in {"createDenyRules", "done"}

\* C26: the slots taken are those of the goroutines that have not yet run
\* their deferred <-sem, and the join counter counts the goroutines that
\* have not yet run their deferred wg.Done(), whatever their call
\* returned; when wg.Wait() has returned no goroutine is running, every
\* goroutine launched has ended and all K slots are free.
C26_EveryExitReleases ==
    /\ sem = Cardinality({t \in Triples : HoldsSlot(t)})
    /\ wg = Cardinality({t \in Triples : Running(t)})
    /\ BarrierReturned =>
          /\ \A t \in Triples : ~Running(t)
          /\ sem = 0 /\ wg = 0
          /\ \A t \in Triples : outcome[t] # "none" => task[t].pc = "done"

\* The barrier of a group returned whose three goroutines left by the
\* three exit paths, and the next step is the first of a later group.
C26_Witness ==
    /\ BarrierReturned
    /\ pc = "createDenyRules"
    /\ di = 1
    /\ \E t, u, v \in Triples :
         /\ LaunchGroup(t) = LaunchGroup(u) /\ LaunchGroup(u) = LaunchGroup(v)
         /\ outcome[t] = "error"
         /\ outcome[u] = "hasTraffic"
         /\ outcome[v] = "noTraffic"

\* C27: a goroutine is launched only for a triple that has none yet; in
\* the group main() is at, every application before the loop index has its
\* goroutine; when the loops are left every planned triple has been
\* verified (its goroutine has ended and its call has an outcome), no
\* other triple has, and the number of verifications counted is the number
\* of planned triples, which is totalQueries: each is verified exactly
\* once.
C27_EveryTripleVerifiedOnce ==
    /\ [](/\ CurGroup # NoGroup =>
                \A k \in 1..Len(envInfos[ei].apps) :
                   k < ai =>
                      task[<<CurGroup[1], CurGroup[2],
                             envInfos[ei].apps[k]>>].pc # "idle"
          /\ \A t \in Triples \ PlannedTriples :
                task[t].pc = "idle" /\ outcome[t] = "none"
          /\ pc \in {"createDenyRules", "done"} =>
                /\ \A t \in PlannedTriples :
                      task[t].pc = "done" /\ outcome[t] # "none"
                /\ doneQueries = Cardinality(PlannedTriples)
                /\ totalQueries = Cardinality(PlannedTriples))
    /\ [][\A t \in Triples :
            (task'[t].pc = "start" /\ task[t].pc # "start") =>
               task[t].pc = "idle"]_vars

C27_Witness ==
    /\ pc = "createDenyRules"
    /\ Cardinality(PlannedTriples) = 3
    /\ Len(envInfos) = 1
    /\ Cardinality({outcome[t] : t \in PlannedTriples}) = 1
    /\ denyRules = <<>>

\* C28: every entry of denyRules and every POSTed payload carries at least
\* one application (the payload: a second provider besides the
\* environment), and a group that joined with an empty accumulator has no
\* entry and no payload.
C28_NoRuleForEmptyGroup ==
    /\ \A i \in 1..Len(denyRules) : Len(denyRules[i].apps) >= 1
    /\ \A i \in 1..Len(ruleReqs) :
         /\ Len(ruleReqs[i].providers) >= 2
         /\ ruleReqs[i].providers[2] \in AppSet
    /\ \A g \in PlannedGroups :
         (GroupJoined(g) /\ appsNoTraffic[g] = <<>>) =>
            /\ \A i \in 1..Len(denyRules) : RulePair(i) # g
            /\ \A i \in 1..Len(ruleReqs) : ReqPair(i) # g

\* Of two groups that joined, the first had nothing to deny and the second
\* got its rule.
C28_Witness ==
    /\ pc = "done"
    /\ Cardinality(PlannedGroups) = 2
    /\ Len(ruleReqs) = 1
    /\ \E g \in PlannedGroups :
         /\ appsNoTraffic[g] = <<>>
         /\ EnvIdx(g[1]) = 1 /\ SvcIdx(g[2]) = 1

\* Request i of the call is a poll whose answer reports the job completed.
ReportsCompleted(i) ==
    /\ qry.log[i].req # "POST"
    /\ qry.log[i].ans.err = "nil"
    /\ qry.log[i].ans.status = Str("completed")

\* C29: the first request of a call is its one submission; every later
\* request is a poll of the job whose href the submission returned, so
\* there is none when it returned none; a poll that reports completed is
\* the last request, the call has returned with it, without error, and
\* its outcome is whether that poll carried a positive flow count.
C29_OneSubmissionThenPollsUntilCompleted ==
    /\ qry.pc \in {"select", "returned"} =>
          Len(qry.log) >= 1 /\ qry.log[1].req = "POST"
    /\ \A i \in 2..Len(qry.log) :
          /\ qry.log[i].req # "POST"
          /\ qry.log[1].ans.err = "nil"
          /\ qry.log[1].ans.href.kind = "string"
          /\ qry.log[1].ans.href.s # ""
          /\ qry.log[i].req = qry.log[1].ans.href.s
    /\ \A i \in 1..Len(qry.log) :
          ReportsCompleted(i) =>
             /\ i = Len(qry.log)
             /\ qry.pc = "returned"
             /\ qry.err = "nil"
             /\ qry.ok <=> /\ qry.log[i].ans.flows_count.kind = "number"
                           /\ qry.log[i].ans.flows_count.n > 0
    /\ qry.pc = "select" =>
          \A i \in 2..Len(qry.log) :
             qry.log[i].ans.err = "nil" /\ ~ReportsCompleted(i)

\* A submission, a poll that finds the job pending and a poll that finds
\* it completed with flows.
C29_Witness ==
    /\ qry.pc = "returned"
    /\ Len(qry.log) = 3
    /\ qry.log[2].ans.status = Str("pending")
    /\ ReportsCompleted(3)
    /\ qry.log[3].ans.flows_count = Num(2)
    /\ qry.ok

\* C30: once the deadline has fired the call has returned the timeout
\* error, and no step adds a request to those the call has sent: no
\* further poll of the job and no request that cancels it; the requests
\* sent are the submission and the polls made before.
C30_NoRequestAfterTimeout ==
    /\ [](qry.err = "timeout" =>
             /\ qry.pc = "returned"
             /\ ~qry.ok
             /\ \A i \in 1..Len(qry.log) :
                   qry.log[i].req \in {"POST", qry.href})
    /\ [][qry.err = "timeout" => qry'.log = qry.log]_vars

C30_Witness ==
    /\ qry.err = "timeout"
    /\ Len(qry.log) = 3
    /\ qry.log[2].ans.status = Str("pending")
    /\ qry.log[3].ans.status = Str("failed")

\* Goroutine t is inside its call of submitTrafficQuery or holds what the
\* call returned: it has read the loop variables ei and service.
HasReadLoopVars(t) ==
    task[t].pc \in {"submit", "poll", "lock", "append", "count"}

\* C31: a goroutine that has read the loop variables queries for the
\* environment and the service of the group that launched it, and one
\* that has not read them yet finds main() at that group; a step that
\* changes the accumulator of a group is the append of a goroutine
\* launched in that group, made while main() is at that group; and no
\* step changes the loop variables ei and service while a goroutine runs.
C31_TaskUsesItsLaunchGroup ==
    /\ [](\A t \in Triples :
             /\ HasReadLoopVars(t) => Queried(t) = t
             /\ task[t].pc = "start" => CurGroup = LaunchGroup(t))
    /\ [][/\ \A g \in Groups :
               appsNoTraffic'[g] # appsNoTraffic[g] =>
                  /\ g = CurGroup
                  /\ \E t \in Triples :
                        /\ InAppend(t) /\ LaunchGroup(t) = g
                        /\ Queried(t) = t
                        /\ appsNoTraffic'[g] = Append(appsNoTraffic[g], t[3])
          /\ (\E t \in Triples : Running(t)) =>
                (ei' = ei /\ si' = si /\ CurGroup' = CurGroup)]_vars

\* A goroutine of a later group appends while another one of that group
\* has not read the loop variables yet.
C31_Witness ==
    \E t, u \in Triples :
       /\ t # u /\ LaunchGroup(t) = LaunchGroup(u)
       /\ (ei > 1 \/ si > 1)
       /\ InAppend(t) /\ Queried(t) = t
       /\ task[u].pc = "start"

\* A verification goroutine is in flight: launched and not ended.
InFlight == \E t \in Triples : Running(t)

\* C32: whenever a creation call has been made no goroutine is in flight,
\* no slot of sem is taken and wg is at zero; a step that makes a creation
\* call starts and ends with no goroutine in flight; and once the first
\* creation call has been made no step launches a goroutine or moves one.
C32_VerificationBeforeSynthesis ==
    /\ [](Len(ruleReqs) > 0 => (~InFlight /\ sem = 0 /\ wg = 0))
    /\ [][/\ Len(ruleReqs') > Len(ruleReqs) => (~InFlight /\ ~InFlight')
          /\ Len(ruleReqs) > 0 => task' = task]_vars

\* The first creation call has been made after the goroutines of two
\* groups ran, and a second one is still to make.
C32_Witness ==
    /\ pc = "createDenyRules"
    /\ Len(ruleReqs) = 1
    /\ Len(denyRules) = 2
    /\ Cardinality({t \in Triples : task[t].pc = "done"}) = 3

(* ------------------ main() from the fan-out to its end ----------------- *)
(* The run from line 430 on, under fair scheduling: the catalog has been   *)
(* loaded (lines 380-428) and asks for at least one verification.          *)

\* Lines 407-418 when every load succeeds: the environments of catalog w
\* that have applications, each with its applications.
LoadedInfos(w) ==
    SelectSeq([i \in 1..Len(EnvLabels) |->
                  [env |-> EnvLabels[i], apps |-> w.apps[EnvLabels[i]]]],
              LAMBDA info : KeepsEnv(TRUE, info.apps))

\* main() at line 430: past the check of totalQueries at line 424.
InitFanOut ==
    /\ backend \in Worlds
    /\ envs = EnvLabels
    /\ services = backend.svcs
    /\ rulesetHref = "rs1"
    /\ li = Len(envs) + 1
    /\ envInfos = LoadedInfos(backend)
    /\ totalQueries = SumQueries(envInfos, Len(services))
    /\ totalQueries # 0
    /\ pc = "getIPListHref"
    /\ ipListHref = ""
    /\ lists = <<>>
    /\ ei = 1 /\ si = 1 /\ ai = 1
    /\ sem = 0
    /\ wg = 0
    /\ appsNoTraffic = [g \in Groups |-> <<>>]
    /\ appsMu = [g \in Groups |-> Unlocked]
    /\ denyRules = <<>>
    /\ doneQueries = 0
    /\ task = [t \in Triples |-> IdleTask]
    /\ outcome = [t \in Triples |-> "none"]
    /\ totalDenyRules = 0
    /\ doneDenyRules = 0
    /\ di = 1
    /\ ruleReqs = <<>>
    /\ ruleResults = <<>>
    /\ emptyReported = FALSE
    /\ http = IdleHttp
    /\ wl = IdleWl
    /\ qry = IdleQry
    /\ us = IdleUs

\* The steps of main() from line 430 on.
MainStep ==
    \/ GetIPListHref
    \/ ResolveIPList
    \/ Launch
    \/ Join
    \/ CreateDenyRule
    \/ Finish

\* The steps of the goroutine launched for triple t (lines 451-472).
TaskStep(t) ==
    \/ StartTask(t)
    \/ SubmitQuery(t)
    \/ PollQuery(t)
    \/ PollTimeout(t)
    \/ LockApps(t)
    \/ AppendApp(t)
    \/ CountDone(t)
    \/ ReleaseSem(t)
    \/ WgDone(t)

NextFanOut ==
    \/ MainStep
    \/ \E t \in Triples : TaskStep(t)

\* The Go scheduler runs every goroutine that can take a step: main() and
\* each verification goroutine is scheduled again and again; a transport
\* call returns, and a job that stays pending meets its deadline.
SpecFanOut ==
    /\ InitFanOut
    /\ [][NextFanOut]_vars
    /\ WF_vars(MainStep)
    /\ \A t \in Triples : WF_vars(TaskStep(t))

\* main() is inside the fan-out or the creation loop.
InsideRun == pc \in {"launch", "wait", "createDenyRules"}

\* The end of the run: main() returned at line 527, no goroutine is left,
\* every group has joined and a creation call was made for every finding.
RunEnded ==
    /\ pc = "done"
    /\ ~InFlight
    /\ \A g \in PlannedGroups : GroupJoined(g)
    /\ Findings = FindingsOf(envInfos, services, outcome)
    /\ PostedFindings = Findings
    /\ Len(ruleReqs) = Len(denyRules)

\* C33: while main() is inside the fan-out or the creation loop some step
\* can always be taken, by main() or by a goroutine (no deadlock on sem,
\* on wg or on appsMu), and under fair scheduling a run that has entered
\* the fan-out reaches its end: every group has joined and a creation call
\* was made for every finding.
C33_RunReachesItsEnd ==
    /\ [](InsideRun => ENABLED NextFanOut)
    /\ (pc = "launch") ~> RunEnded

\* main() waits for a slot: both slots are taken, an application of the
\* group is still to launch, and one of the two goroutines holding a slot
\* polls a job that can only meet its deadline.
C33_Witness ==
    /\ pc = "launch"
    /\ sem = K
    /\ ~ENABLED Launch
    /\ \E t \in Triples : task[t].pc = "poll" /\ task[t].polls = MaxPolls

(* ------------------- auto-deny-rules.user.js: one group ---------------- *)
(* runAutoDeny() of the userscript at one (service, environment) pair:     *)
(* the applications are verified in batches of two by submitTrafficQuery   *)
(* (Promise.all), the ones it reports go to zeroFlowApps, and one deny     *)
(* rule is created for them.  An await is a step.                          *)

\* The environment label of the group.
UsEnv == "e1"

\* fetchJSON of the POST of a query: data with an href, or data without
\* one (null after a fetch error or a non-JSON body).
UsPostAnswers == {"href", "null"}

\* fetchJSON of the poll: poll?.status.
UsPollStatuses == {"completed", "failed", "canceled", "pending", "null"}

\* fetchJSON of the download: null, an empty array, an array of flows.
UsDownloads == {"null", "empty", "flows"}

\* download?.length as a condition: true for a non-empty array only.
HasLength(download) == download = "flows"

\* What is recorded of a download for the claims.
SeenDownload(download) ==
    IF download = "flows" THEN "flows"
    ELSE IF download = "empty" THEN "zero" ELSE "nodownload"

\* The record of a call with what its current query met.
UsSeen(rec, v) ==
    IF rec.phase = 24 THEN [rec EXCEPT !.r24 = v] ELSE [rec EXCEPT !.r89 = v]

\* submitTrafficQuery returns v.
UsReturn(rec, v) == [rec EXCEPT !.pc = "returned", !.noFlow = v, !.polls = 0]

\* Lines 241-250 and 264-275: the query of the current window gave no
\* download: the 24-hour query falls through to the 89-day query, the
\* 89-day query to the return false of line 275.
UsNoDownload(rec) ==
    IF rec.phase = 24
    THEN [rec EXCEPT !.phase = 89, !.pc = "post", !.polls = 0]
    ELSE UsReturn(rec, FALSE)

\* Lines 248 and 271: the download of the 24-hour query returns true when
\* it has a length and falls through otherwise; the one of the 89-day
\* query returns the negation of its length.
UsAfterDownload(rec, download) ==
    IF rec.phase = 24
    THEN (IF HasLength(download)
          THEN UsReturn(rec, TRUE)
          ELSE [rec EXCEPT !.phase = 89, !.pc = "post", !.polls = 0])
    ELSE UsReturn(rec, ~HasLength(download))

\* Line 364: apps.slice(i, i + 2), with i counted from 1.
UsBatch(rec) ==
    SubSeq(rec.apps, rec.i,
           IF rec.i + 1 <= Len(rec.apps) THEN rec.i + 1 ELSE Len(rec.apps))

\* Lines 279-287: uniqByHref keeps the first item of each href.
RECURSIVE UniqByHref(_)
UniqByHref(items) ==
    IF items = <<>> THEN <<>>
    ELSE LET front == UniqByHref(SubSeq(items, 1, Len(items) - 1))
             last  == items[Len(items)]
         IN  IF last \in Range(front) THEN front ELSE Append(front, last)

\* runAutoDeny() reaches line 360 with the applications of the group.
InitUserscript ==
    /\ backend = NoCatalog
    /\ InitMain
    /\ http = IdleHttp
    /\ wl = IdleWl
    /\ qry = IdleQry
    /\ \E apps \in Prefixes(AppLabels) :
         us = [IdleUs EXCEPT !.pc = "loop", !.apps = apps]

\* Lines 363-369: the next batch; each application of it starts its call
\* of submitTrafficQuery with the 24-hour query.
UsStartBatch ==
    /\ us.pc = "loop"
    /\ us.i <= Len(us.apps)
    /\ us' = [us EXCEPT
                !.pc = "await",
                !.call = [a \in AppSet |->
                            IF a \in Range(UsBatch(us))
                            THEN [IdleCall EXCEPT !.pc = "post", !.phase = 24]
                            ELSE us.call[a]]]
    /\ UNCHANGED <<mainVars, http, wl, qry>>

\* Lines 230-241 and 253-264: the POST of the query of the current window.
UsPost(a) ==
    /\ us.call[a].pc = "post"
    /\ \E r \in UsPostAnswers :
         us' = [us EXCEPT !.call[a] =
                  IF r = "href"
                  THEN [us.call[a] EXCEPT !.pc = "poll", !.polls = 0]
                  ELSE UsNoDownload(UsSeen(us.call[a], "nohref"))]
    /\ UNCHANGED <<mainVars, http, wl, qry>>

\* pollUntilCompleted, lines 195-206: one turn of the loop.  After an
\* answer that is neither completed nor failed nor canceled the loop goes
\* on if maxWaitMs has not elapsed; time is not modelled, so it may have
\* elapsed after any turn, and has after MaxPolls turns.
UsPoll(a) ==
    /\ us.call[a].pc = "poll"
    /\ \E status \in UsPollStatuses, elapsed \in BOOLEAN :
         LET rec == [us.call[a] EXCEPT !.polls = @ + 1]
         IN  /\ (status \in {"pending", "null"} /\ ~elapsed) =>
                   rec.polls < MaxPolls
             /\ (status \notin {"pending", "null"}) => ~elapsed
             /\ us' = [us EXCEPT !.call[a] =
                  IF status = "completed"
                  THEN [rec EXCEPT !.pc = "download"]
                  ELSE IF status \in {"failed", "canceled"}
                  THEN UsNoDownload(UsSeen(rec, "failed"))
                  ELSE IF elapsed
                  THEN UsNoDownload(UsSeen(rec, "timeout"))
                  ELSE rec]
    /\ UNCHANGED <<mainVars, http, wl, qry>>

\* Lines 244-248 and 267-271: the download of the completed query.
UsDownload(a) ==
    /\ us.call[a].pc = "download"
    /\ \E d \in UsDownloads :
         us' = [us EXCEPT !.call[a] =
                  UsAfterDownload(UsSeen(us.call[a], SeenDownload(d)), d)]
    /\ UNCHANGED <<mainVars, http, wl, qry>>

\* Lines 365-375: Promise.all resolves; the applications of the batch for
\* which submitTrafficQuery returned true are pushed to zeroFlowApps, in
\* the order of the batch.
UsJoinBatch ==
    /\ us.pc = "await"
    /\ \A a \in Range(UsBatch(us)) : us.call[a].pc = "returned"
    /\ us' = [us EXCEPT
                !.zeroFlowApps =
                   @ \o SelectSeq(UsBatch(us), LAMBDA a : us.call[a].noFlow),
                !.i = @ + 2,
                !.pc = "loop"]
    /\ UNCHANGED <<mainVars, http, wl, qry>>

\* Lines 377-379 and createDenyRule, lines 291-294: the rule of the group
\* is created when zeroFlowApps is not empty.
UsCreateDenyRule ==
    /\ us.pc = "loop"
    /\ us.i > Len(us.apps)
    /\ us' = [us EXCEPT
                !.providers = IF Len(us.zeroFlowApps) # 0
                              THEN UniqByHref(us.zeroFlowApps \o <<UsEnv>>)
                              ELSE <<>>,
                !.pc = "done"]
    /\ UNCHANGED <<mainVars, http, wl, qry>>

NextUserscript ==
    \/ UsStartBatch
    \/ \E a \in AppSet : UsPost(a)
    \/ \E a \in AppSet : UsPoll(a)
    \/ \E a \in AppSet : UsDownload(a)
    \/ UsJoinBatch
    \/ UsCreateDenyRule

SpecUserscript == InitUserscript /\ [][NextUserscript]_vars

\* The applications the userscript denies in the group: those of
\* zeroFlowApps and the application labels among the providers.
UsDenied == Range(us.zeroFlowApps) \cup (Range(us.providers) \ {UsEnv})

\* C34: an application is in zeroFlowApps or among the providers of the
\* rule only if its 24-hour query and its 89-day query both completed and
\* both downloads held no flows; an application whose 24-hour query showed
\* flows, failed or timed out is in neither.
C34_UserscriptDeniesOnlySilentApps ==
    \A a \in AppSet :
       /\ a \in UsDenied =>
             us.call[a].r24 = "zero" /\ us.call[a].r89 = "zero"
       /\ us.call[a].r24 \in {"flows", "nohref", "failed", "timeout"} =>
             a \notin UsDenied

====
